---- MODULE Spec2Model ----
(***************************************************************************)
(* Knowledge-base ingestion and deletion of supportly                      *)
(* (packages/backend/convex/private/files.ts): the Convex action addFile   *)
(* and the Convex mutation deleteFile, running over the blob store         *)
(* (ctx.storage) and the entry / chunk tables kept by the RAG component    *)
(* (@convex-dev/rag, reached through the client of system/ai/rag.ts).      *)
(*                                                                         *)
(* addFile is an action: every await is a point where other requests run,  *)
(* so it is modelled as a process with one step per awaited call.          *)
(* deleteFile is a mutation: Convex runs it as one transaction, so it is   *)
(* one action; an error thrown inside it rolls all of its writes back.     *)
(*                                                                         *)
(* The module also holds the voice-call hook of the widget (useVapi): its  *)
(* React state, the callbacks it returns and the handlers it registers on  *)
(* the Vapi instance, each one step.  The hook and the backend share no    *)
(* state, so each has its own specification (Spec, VapiSpec) in which the  *)
(* other one rests in its initial state.                                   *)
(***************************************************************************)
EXTENDS Naturals, FiniteSets, Sequences

----------------------------------------------------------------------------
(* Bounds of the model                                                     *)

MaxProcs == 2          \* addFile requests that can be in flight together
MaxUploads == 2        \* ctx.storage.store calls over a run
DeletePage == 1        \* chunks removed by one deleteAsync transaction
MaxTranscript == 3     \* transcript items the hook collects over a run

Procs == 1 .. MaxProcs
StorageIds == 1 .. MaxUploads
EntryIds == 1 .. MaxUploads
NoStorage == 0
NoEntry == 0

----------------------------------------------------------------------------
(* Inputs                                                                  *)

Orgs == {"acme", "other"}

\* ctx.auth.getUserIdentity(): null, an identity without orgId, or one with it
NoIdentity == [present |-> FALSE, orgId |-> ""]
Identities ==
    {NoIdentity, [present |-> TRUE, orgId |-> ""]}
        \cup {[present |-> TRUE, orgId |-> o] : o \in Orgs}

Filenames == {"faq.txt", "notes"}
MimeArgs == {"", "text/plain"}
\* args.category is optional: NoCategory when the caller leaves it out
NoCategory == "null"
Categories == {NoCategory, "billing"}
Bytes == {"B1", "Bpdf", "Bblank"}

\* Decoded content of each upload, as the sequence of its non-blank paragraphs:
\* B1 is a two-paragraph text, Bpdf a one-paragraph PDF, Bblank only whitespace.
DecodedText(bytes) ==
    CASE bytes = "B1" -> <<"intro", "answers">>
      [] bytes = "Bpdf" -> <<"pricing">>
      [] OTHER -> << >>

\* contentHashFromArrayBuffer: SHA-256 over the raw bytes (collision free here)
ContentHash(bytes) ==
    CASE bytes = "B1" -> "sha:7d1"
      [] bytes = "Bpdf" -> "sha:c42"
      [] OTHER -> "sha:e3b"

\* guessMimeTypeFromExtension: conclusive only when the name has an extension
GuessMimeTypeFromExtension(filename) ==
    IF filename = "faq.txt" THEN "text/plain" ELSE ""

\* guessMimeTypeFromContents: magic-number sniffing; plain text has none
GuessMimeTypeFromContents(bytes) ==
    IF bytes = "Bpdf" THEN "application/pdf" ELSE ""

\* the contents are sniffed before the extension is looked at
GuessMimeTypeContentsFirst(filename, bytes) ==
    IF GuessMimeTypeFromContents(bytes) # ""
    THEN GuessMimeTypeFromContents(bytes)
    ELSE IF GuessMimeTypeFromExtension(filename) # ""
         THEN GuessMimeTypeFromExtension(filename)
         ELSE "application/octet-stream"

\* lines 13-19: extension || contents || "application/octet-stream"
GuessMimeType(filename, bytes) ==
    IF GuessMimeTypeFromExtension(filename) # ""
    THEN GuessMimeTypeFromExtension(filename)
    ELSE IF GuessMimeTypeFromContents(bytes) # ""
         THEN GuessMimeTypeFromContents(bytes)
         ELSE "application/octet-stream"

\* the supplied type is ignored
AlwaysGuessMimeType(mimeArg, filename, bytes) == GuessMimeType(filename, bytes)

\* const mimeType = args.mimeType || guessMimeType(filename, bytes)
ChooseMimeType(mimeArg, filename, bytes) ==
    IF mimeArg # "" THEN mimeArg ELSE GuessMimeType(filename, bytes)

\* extractTextContent: a strategy per supported format, an error otherwise
SupportedMime(mimeType) == mimeType \in {"text/plain", "application/pdf"}
ExtractTextContent(bytes, mimeType) == DecodedText(bytes)

----------------------------------------------------------------------------
(* State                                                                   *)

VARIABLES
    blobs,          \* ctx.storage: the storage ids that hold a blob
    namespaces,     \* RAG namespaces that exist (created by the first add)
    entries,        \* RAG entry records
    chunks,         \* RAG chunk records
    deleting,       \* entries whose deleteAsync continuation is queued
    procs,          \* the addFile requests: position and locals; a finished
                    \* request shows its response until the next step
    nextStorageId,  \* next id ctx.storage.store hands out
    nextEntryId,    \* next id the entries table hands out
    lastDelete,     \* response of the deleteFile call of the latest step
    vapi,           \* useVapi: the vapi state as the rendered closures see it
    isConnected,    \* useVapi state
    isConnecting,   \* useVapi state
    isSpeaking,     \* useVapi state
    transcript,     \* useVapi state: sequence of {role, text}
    lifecycle,      \* useVapi: "rendered", "mounted" (effect ran), "unmounted"
    call,           \* the Vapi instance's call: "idle", "started", "stopping"
    lastEvent       \* the callback or handler of the latest step, its message

filesVars ==
    <<blobs, namespaces, entries, chunks, deleting, procs, nextStorageId,
      nextEntryId, lastDelete>>

vapiVars ==
    <<vapi, isConnected, isConnecting, isSpeaking, transcript, lifecycle,
      call, lastEvent>>

vars == <<filesVars, vapiVars>>

IdleProc ==
    [pc |-> "idle", orgId |-> "", filename |-> "", bytes |-> "",
     category |-> NoCategory, argsMimeType |-> "", attempts |-> 0,
     mimeType |-> "", storageId |-> NoStorage, text |-> << >>,
     entryId |-> NoEntry, created |-> FALSE, url |-> NoStorage,
     error |-> "", racedWith |-> {}]

NoDelete ==
    [orgId |-> "", entryId |-> NoEntry, code |-> "", storageId |-> NoStorage]

\* useState<Vapi | null>(null); the hook creates one instance
NoVapi == "null"
VapiInstance == "vapiInstance"

NoMessage ==
    [type |-> "", transcriptType |-> "", role |-> "", transcript |-> ""]

NoEvent == [name |-> "", message |-> NoMessage]

Init ==
    /\ blobs = {}
    /\ namespaces = {}
    /\ entries = {}
    /\ chunks = {}
    /\ deleting = {}
    /\ procs = [p \in Procs |-> IdleProc]
    /\ nextStorageId = 1
    /\ nextEntryId = 1
    /\ lastDelete = NoDelete
    /\ vapi = NoVapi
    /\ isConnected = FALSE
    /\ isConnecting = FALSE
    /\ isSpeaking = FALSE
    /\ transcript = << >>
    /\ lifecycle = "rendered"
    /\ call = "idle"
    /\ lastEvent = NoEvent

----------------------------------------------------------------------------
(* RAG component operations used by files.ts                               *)

EntryIdsOf(es) == {e.entryId : e \in es}
EntryById(id) == CHOOSE e \in entries : e.entryId = id
ChunksOf(id) == {c \in chunks : c.entryId = id}

\* every upload goes to one fixed search space
SharedNamespace(orgId) == "acme"

\* namespace: orgId  -- the search space an upload is added to
AddNamespace(orgId) == orgId

\* the key is never looked up
FindNoEntry(namespace, key) == {}

\* the key is looked up across all namespaces
FindExistingAnyNamespace(namespace, key) ==
    {e \in entries : e.key = key /\ e.status = "ready"}

\* the ready entry that holds this key in this namespace (rag.add looks the
\* key up inside its insert transaction)
FindExistingEntry(namespace, key) ==
    {e \in entries :
        e.namespace = namespace /\ e.key = key /\ e.status = "ready"}

\* only the first chunk of the text is written
FirstChunkOnly(entryId, namespace, text) ==
    {[entryId |-> entryId, namespace |-> namespace, order |-> i,
      content |-> text[i]] : i \in 1 .. (IF Len(text) > 0 THEN 1 ELSE 0)}

\* the last chunk of the text is not written
ChunksWithoutLast(entryId, namespace, text) ==
    {[entryId |-> entryId, namespace |-> namespace, order |-> i,
      content |-> text[i]] : i \in 1 .. (IF Len(text) > 0 THEN Len(text) - 1
                                                         ELSE 0)}

\* one chunk per piece of the text, tagged with its entry and namespace
EntryChunks(entryId, namespace, text) ==
    {[entryId |-> entryId, namespace |-> namespace, order |-> i,
      content |-> text[i]] : i \in 1 .. Len(text)}

\* uploadedBy is not filled in
UploadMetadataNoOwner(storageId, orgId, filename, category) ==
    [storageId |-> storageId, uploadedBy |-> "", filename |-> filename,
     category |-> category]

\* metadata: { storageId, uploadedBy: orgId, filename,
\*             category: category ?? null }
UploadMetadata(storageId, orgId, filename, category) ==
    [storageId |-> storageId, uploadedBy |-> orgId, filename |-> filename,
     category |-> category]

\* the search space is taken from a request argument when one is given
NewEntryArgNamespace(entryId, orgId, filename, bytes, storageId, category) ==
    [entryId |-> entryId,
     namespace |-> IF category # NoCategory THEN category ELSE orgId,
     key |-> filename, title |-> filename,
     contentHash |-> ContentHash(bytes), status |-> "ready",
     metadata |-> UploadMetadata(storageId, orgId, filename, category)]

NewEntry(entryId, orgId, filename, bytes, storageId, category) ==
    [entryId |-> entryId, namespace |-> AddNamespace(orgId),
     key |-> filename, title |-> filename,
     contentHash |-> ContentHash(bytes), status |-> "ready",
     metadata |-> UploadMetadata(storageId, orgId, filename, category)]

----------------------------------------------------------------------------
(* addFile (action): one step per awaited call                             *)

Finished == {"done", "failed", "crashed"}
CanStart(p) == procs[p].pc \in Finished \cup {"idle"}
InFlight(p) == procs[p].pc \in {"stored", "extracted"}

\* a finished request leaves its slot with the next step of the system
Settled(q) == IF procs[q].pc \in Finished THEN IdleProc ELSE procs[q]
Others == [q \in Procs |-> Settled(q)]
\* request p moves to rec; a request that starts is no longer the one an
\* earlier insert raced with
Moved(p, rec) ==
    [q \in Procs |->
        IF q = p THEN rec
        ELSE IF rec.pc \in {"stored", "failed"} /\ CanStart(p)
             THEN [Settled(q) EXCEPT !.racedWith = @ \ {p}]
             ELSE Settled(q)]

\* a request that ends by an error or a cancel: the arguments and locals that
\* nothing reads any more are gone with the handler
Ended(p) ==
    [procs[p] EXCEPT !.category = NoCategory, !.argsMimeType = "",
                     !.mimeType = "", !.text = << >>]

\* the organization of the identity is not looked at
AuthorizedAnyIdentity(identity) == identity.present

\* lines 91-107: no identity, or an identity without orgId
Authorized(identity) == identity.present /\ identity.orgId # ""

AddFileUnauthorized(p) ==
    /\ CanStart(p)
    /\ \E identity \in Identities :
        /\ ~Authorized(identity)
        /\ procs' = Moved(p, [IdleProc EXCEPT !.pc = "failed",
                                              !.error = "UNAUTHORIZED"])
    /\ lastDelete' = NoDelete
    /\ UNCHANGED <<blobs, namespaces, entries, chunks, deleting,
                   nextStorageId, nextEntryId>>
    /\ UNCHANGED vapiVars

\* lines 91-115: the checks pass, the MIME type is chosen, the blob is stored
AddFileStore(p) ==
    /\ CanStart(p)
    /\ nextStorageId <= MaxUploads
    /\ \E identity \in Identities, filename \in Filenames,
          mimeArg \in MimeArgs, bytes \in Bytes, category \in Categories :
        /\ Authorized(identity)
        /\ procs' = Moved(p,
                [IdleProc EXCEPT
                    !.pc = "stored",
                    !.orgId = identity.orgId,
                    !.filename = filename,
                    !.bytes = bytes,
                    !.category = category,
                    !.argsMimeType = mimeArg,
                    !.mimeType = ChooseMimeType(mimeArg, filename, bytes),
                    !.storageId = nextStorageId])
    /\ blobs' = blobs \cup {nextStorageId}
    /\ nextStorageId' = nextStorageId + 1
    /\ lastDelete' = NoDelete
    /\ UNCHANGED <<namespaces, entries, chunks, deleting, nextEntryId>>
    /\ UNCHANGED vapiVars

\* line 115: ctx.storage.store throws; nothing was written. The call was made
\* once (attempts): no loop or handler surrounds any awaited call of addFile
AddFileStoreFail(p) ==
    /\ CanStart(p)
    /\ \E identity \in Identities :
        /\ Authorized(identity)
        /\ procs' = Moved(p, [IdleProc EXCEPT !.pc = "failed",
                                              !.orgId = identity.orgId,
                                              !.error = "TRANSIENT_IO",
                                              !.attempts = 1])
    /\ lastDelete' = NoDelete
    /\ UNCHANGED <<blobs, namespaces, entries, chunks, deleting,
                   nextStorageId, nextEntryId>>
    /\ UNCHANGED vapiVars

\* lines 117-122: extractTextContent returns the text, or throws on a format
\* it has no strategy for; addFile has no handler, so the error leaves it.
\* args.mimeType and mimeType are not read after line 121, text and category
\* not after line 138: the request's record drops each there.
AddFileExtract(p) ==
    /\ procs[p].pc = "stored"
    /\ procs' = Moved(p,
            IF SupportedMime(procs[p].mimeType)
            THEN [procs[p] EXCEPT
                    !.pc = "extracted",
                    !.argsMimeType = "",
                    !.mimeType = "",
                    !.text = ExtractTextContent(procs[p].bytes,
                                                procs[p].mimeType)]
            ELSE [Ended(p) EXCEPT !.pc = "failed",
                                  !.error = "UNSUPPORTED_FORMAT"])
    /\ lastDelete' = NoDelete
    /\ UNCHANGED <<blobs, namespaces, entries, chunks, deleting,
                   nextStorageId, nextEntryId>>
    /\ UNCHANGED vapiVars

\* lines 117-122: the extraction of a non-plain format calls a model, which
\* can fail
AddFileExtractFail(p) ==
    /\ procs[p].pc = "stored"
    /\ SupportedMime(procs[p].mimeType)
    /\ procs[p].mimeType # "text/plain"
    /\ procs' = Moved(p, [Ended(p) EXCEPT !.pc = "failed",
                                          !.error = "TRANSIENT_IO",
                                          !.attempts = 1])
    /\ lastDelete' = NoDelete
    /\ UNCHANGED <<blobs, namespaces, entries, chunks, deleting,
                   nextStorageId, nextEntryId>>
    /\ UNCHANGED vapiVars

\* the entry that held the key is overwritten by the new one
EntriesOverwritten(existing, new) == (entries \ existing) \cup {new}

\* rag.add under a key in use: the new entry is inserted, and the ready entry
\* that held the key stays in the table, marked "replaced"
EntriesAfterAdd(existing, new) ==
    {IF e \in existing THEN [e EXCEPT !.status = "replaced"] ELSE e :
        e \in entries} \cup {new}

\* the content hash is ignored
NeverSame(e, contentHash) == FALSE

\* the entry rag.add answers with when the key already holds this content
SameContent(e, contentHash) == e.contentHash = contentHash

\* lines 124-141: rag.add({namespace: orgId, text, key: filename, title,
\* metadata, contentHash}). The namespace is created on first use. A ready
\* entry with this key and this content hash is returned as it is
\* (created = false); otherwise a new entry and its chunks are inserted in one
\* transaction and the entry that held the key becomes "replaced".
AddFileRagAdd(p) ==
    /\ procs[p].pc = "extracted"
    /\ LET me == procs[p]
           namespace == AddNamespace(me.orgId)
           existing == FindExistingEntry(namespace, me.filename)
           same == {e \in existing : SameContent(e, ContentHash(me.bytes))}
       IN  /\ namespaces' = namespaces \cup {namespace}
           /\ IF same # {}
              THEN /\ procs' = Moved(p,
                          [me EXCEPT
                              !.pc = "added",
                              !.text = << >>,
                              !.category = NoCategory,
                              !.entryId = (CHOOSE e \in same : TRUE).entryId,
                              !.created = FALSE])
                   /\ UNCHANGED <<entries, chunks, nextEntryId>>
              ELSE /\ entries' =
                          EntriesAfterAdd(existing,
                              NewEntry(nextEntryId, me.orgId, me.filename,
                                       me.bytes, me.storageId, me.category))
                   /\ chunks' = chunks \cup
                          EntryChunks(nextEntryId, namespace, me.text)
                   /\ nextEntryId' = nextEntryId + 1
                   /\ procs' = Moved(p,
                          [me EXCEPT
                              !.pc = "added",
                              !.text = << >>,
                              !.category = NoCategory,
                              !.entryId = nextEntryId,
                              !.created = TRUE,
                              !.racedWith =
                                  {q \in Procs \ {p} : InFlight(q)}])
    /\ lastDelete' = NoDelete
    /\ UNCHANGED <<blobs, deleting, nextStorageId>>
    /\ UNCHANGED vapiVars

\* lines 124-141: the embedding call inside rag.add throws before any write
AddFileRagAddFail(p) ==
    /\ procs[p].pc = "extracted"
    /\ procs' = Moved(p, [Ended(p) EXCEPT !.pc = "failed",
                                          !.error = "TRANSIENT_IO",
                                          !.attempts = 1])
    /\ lastDelete' = NoDelete
    /\ UNCHANGED <<blobs, namespaces, entries, chunks, deleting,
                   nextStorageId, nextEntryId>>
    /\ UNCHANGED vapiVars

\* ctx.storage.getUrl(storageId): the blob the url serves, null when it is gone
GetUrl(storageId) == IF storageId \in blobs THEN storageId ELSE NoStorage

\* lines 143-150: return { url, entryId }
AddFileReturn(p) ==
    /\ procs[p].pc = "added"
    /\ procs' = Moved(p, [procs[p] EXCEPT
                            !.pc = "done",
                            !.url = GetUrl(procs[p].storageId)])
    /\ lastDelete' = NoDelete
    /\ UNCHANGED <<blobs, namespaces, entries, chunks, deleting,
                   nextStorageId, nextEntryId>>
    /\ UNCHANGED vapiVars

\* the action is cancelled or its process dies between two awaited calls
AddFileCrash(p) ==
    /\ procs[p].pc \in {"stored", "extracted", "added"}
    /\ procs' = Moved(p, [Ended(p) EXCEPT !.pc = "crashed"])
    /\ lastDelete' = NoDelete
    /\ UNCHANGED <<blobs, namespaces, entries, chunks, deleting,
                   nextStorageId, nextEntryId>>
    /\ UNCHANGED vapiVars

----------------------------------------------------------------------------
(* deleteFile (mutation): one transaction                                  *)

EntryExists(entryId) == \E e \in entries : e.entryId = entryId

\* the ownership check is missing
DeleteAlwaysAuthorized(entry, orgId) == TRUE

\* line 66: entry.metadata?.uploadedBy !== orgId
DeleteAuthorized(entry, orgId) == entry.metadata.uploadedBy = orgId

\* the entry is looked up before the caller's namespace
DeleteCheckEntryFirst(identity, entryId) ==
    IF ~identity.present THEN "UNAUTHORIZED"
    ELSE IF identity.orgId = "" THEN "UNAUTHORIZED"
    ELSE IF ~EntryExists(entryId) THEN "NOT_FOUND"
    ELSE IF identity.orgId \notin namespaces THEN "UNAUTHORIZED"
    ELSE IF ~DeleteAuthorized(EntryById(entryId), identity.orgId)
         THEN "UNAUTHORIZED"
    ELSE ""

\* an entry that does not exist is answered like one of another tenant
DeleteCheckMissingAsForeign(identity, entryId) ==
    IF ~identity.present THEN "UNAUTHORIZED"
    ELSE IF identity.orgId = "" THEN "UNAUTHORIZED"
    ELSE IF identity.orgId \notin namespaces THEN "UNAUTHORIZED"
    ELSE IF ~EntryExists(entryId) THEN "UNAUTHORIZED"
    ELSE IF ~DeleteAuthorized(EntryById(entryId), identity.orgId)
         THEN "UNAUTHORIZED"
    ELSE ""

\* lines 26-71: the checks, in the order of the code; "" when all pass
DeleteCheck(identity, entryId) ==
    IF ~identity.present THEN "UNAUTHORIZED"
    ELSE IF identity.orgId = "" THEN "UNAUTHORIZED"
    ELSE IF identity.orgId \notin namespaces THEN "UNAUTHORIZED"
    ELSE IF ~EntryExists(entryId) THEN "NOT_FOUND"
    ELSE IF ~DeleteAuthorized(EntryById(entryId), identity.orgId)
         THEN "UNAUTHORIZED"
    ELSE ""

\* the blob is looked up by the id of the entry
BlobsAfterDeleteByEntryId(entry) == blobs \ {entry.entryId}

\* the blob is left in the store
BlobsKept(entry) == blobs

\* lines 73-75: ctx.storage.delete(entry.metadata.storageId)
BlobsAfterDelete(entry) ==
    IF entry.metadata.storageId # NoStorage
    THEN blobs \ {entry.metadata.storageId}
    ELSE blobs

\* the chunks one deleteAsync transaction removes: the next DeletePage chunks
\* of the entry, lowest order first
ChunksPage(entryId) ==
    {c \in ChunksOf(entryId) :
        Cardinality({d \in ChunksOf(entryId) : d.order < c.order}) < DeletePage}

\* the entry record is removed with the first page, before its other chunks
DeleteAsyncEntryFirst(entryId) ==
    /\ chunks' = chunks \ ChunksPage(entryId)
    /\ entries' = {e \in entries : e.entryId # entryId}
    /\ IF ChunksOf(entryId) \subseteq ChunksPage(entryId)
       THEN deleting' = deleting \ {entryId}
       ELSE deleting' = deleting \cup {entryId}

\* rag.deleteAsync, one transaction of it: a page of the entry's chunks is
\* removed; the entry record is removed with the last page, and otherwise the
\* same transaction is queued again for the rest
DeleteAsyncPage(entryId) ==
    /\ chunks' = chunks \ ChunksPage(entryId)
    /\ IF ChunksOf(entryId) \subseteq ChunksPage(entryId)
       THEN /\ entries' = {e \in entries : e.entryId # entryId}
            /\ deleting' = deleting \ {entryId}
       ELSE /\ entries' = entries
            /\ deleting' = deleting \cup {entryId}

\* what a deleteFile call answered: the caller, the entry asked for, the error
\* code ("OK" when none was thrown) and the blob a successful call removed
Response(identity, entryId, code, storageId) ==
    [orgId |-> identity.orgId, entryId |-> entryId, code |-> code,
     storageId |-> storageId]

\* a failed check throws: the mutation ends with the error and no write
DeleteFileRejected ==
    /\ \E identity \in Identities, entryId \in EntryIds :
        /\ DeleteCheck(identity, entryId) # ""
        /\ lastDelete' =
              Response(identity, entryId, DeleteCheck(identity, entryId),
                       NoStorage)
    /\ procs' = Others
    /\ UNCHANGED <<blobs, namespaces, entries, chunks, deleting,
                   nextStorageId, nextEntryId>>
    /\ UNCHANGED vapiVars

\* lines 73-79: the blob is deleted, then rag.deleteAsync runs its first page
DeleteFileOk ==
    /\ \E identity \in Identities, entryId \in EntryIds :
        /\ DeleteCheck(identity, entryId) = ""
        /\ LET entry == EntryById(entryId)
           IN  /\ entry.metadata.storageId # NoStorage
                      => entry.metadata.storageId \in blobs
               /\ blobs' = BlobsAfterDelete(entry)
               /\ DeleteAsyncPage(entryId)
               /\ lastDelete' = Response(identity, entryId, "OK",
                                         entry.metadata.storageId)
    /\ procs' = Others
    /\ UNCHANGED <<namespaces, nextStorageId, nextEntryId>>
    /\ UNCHANGED vapiVars

\* line 74 on an entry whose blob is already gone (a second deleteFile while
\* the first one's deleteAsync is still queued): ctx.storage.delete either
\* throws, and the mutation is rolled back, or does nothing
DeleteFileBlobGone ==
    /\ \E identity \in Identities, entryId \in EntryIds :
        /\ DeleteCheck(identity, entryId) = ""
        /\ LET entry == EntryById(entryId)
           IN  /\ entry.metadata.storageId # NoStorage
               /\ entry.metadata.storageId \notin blobs
               /\ \/ /\ lastDelete' =
                           Response(identity, entryId, "STORAGE_ERROR",
                                    NoStorage)
                     /\ UNCHANGED <<blobs, entries, chunks, deleting>>
                  \/ /\ lastDelete' = Response(identity, entryId, "OK",
                                                 entry.metadata.storageId)
                     /\ blobs' = BlobsAfterDelete(entry)
                     /\ DeleteAsyncPage(entryId)
    /\ procs' = Others
    /\ UNCHANGED <<namespaces, nextStorageId, nextEntryId>>
    /\ UNCHANGED vapiVars

\* the queued continuation of rag.deleteAsync, run by the component's workpool
DeleteAsyncContinue ==
    /\ \E entryId \in deleting : DeleteAsyncPage(entryId)
    /\ procs' = Others
    /\ lastDelete' = NoDelete
    /\ UNCHANGED <<blobs, namespaces, nextStorageId, nextEntryId>>
    /\ UNCHANGED vapiVars

----------------------------------------------------------------------------
(* Retrieval: rag.search({namespace, query})                               *)

\* the chunks a query of a namespace can return: those indexed under that
\* namespace whose entry is ready
SearchHits(namespace) ==
    {c \in chunks :
        /\ c.namespace = namespace
        /\ \E e \in entries : e.entryId = c.entryId /\ e.status = "ready"}

----------------------------------------------------------------------------
(* The voice-call hook useVapi                                             *)

\* the fields of a Vapi message that the hook reads
MessageTypes == {"transcript", "function-call"}
TranscriptTypes == {"final", "partial"}
MessageRoles == {"user", "assistant", "system"}
Transcripts == {"hello", "bye"}

Messages ==
    [type : MessageTypes, transcriptType : TranscriptTypes,
     role : MessageRoles, transcript : Transcripts]

Event(name, message) == [name |-> name, message |-> message]

Flags ==
    [isConnected |-> isConnected, isConnecting |-> isConnecting,
     isSpeaking |-> isSpeaking]

\* the effect of the first commit: the instance is created and the five
\* handlers are registered; setVapi(vapiInstance) reaches the callbacks
\* with the next render
UseEffect ==
    /\ lifecycle = "rendered"
    /\ lifecycle' = "mounted"
    /\ lastEvent' = Event("useEffect", NoMessage)
    /\ UNCHANGED <<vapi, isConnected, isConnecting, isSpeaking, transcript,
                   call>>
    /\ UNCHANGED filesVars

\* the render after setVapi: startCall and endCall are closures of a render
\* and read the vapi of that render
Render ==
    /\ lifecycle = "mounted"
    /\ vapi = NoVapi
    /\ vapi' = VapiInstance
    /\ lastEvent' = Event("render", NoMessage)
    /\ UNCHANGED <<isConnected, isConnecting, isSpeaking, transcript,
                   lifecycle, call>>
    /\ UNCHANGED filesVars

\* lines 55-60
StartCall ==
    /\ lifecycle # "unmounted"
    /\ isConnecting' = TRUE
    /\ call' = IF vapi # NoVapi THEN "started" ELSE call
    /\ lastEvent' = Event("startCall", NoMessage)
    /\ UNCHANGED <<vapi, isConnected, isSpeaking, transcript, lifecycle>>
    /\ UNCHANGED filesVars

\* lines 62-66: stop() ends a call that runs; the instance answers with
\* the call-end event
EndCall ==
    /\ lifecycle # "unmounted"
    /\ call' = IF vapi # NoVapi /\ call = "started" THEN "stopping" ELSE call
    /\ lastEvent' = Event("endCall", NoMessage)
    /\ UNCHANGED <<vapi, isConnected, isConnecting, isSpeaking, transcript,
                   lifecycle>>
    /\ UNCHANGED filesVars

\* the handlers run whenever the instance emits; they are registered
\* without regard to the state of the hook, so every order of events is
\* taken
HandlersLive == lifecycle = "mounted"

\* a call-end handler without line 22
CallEndKeepsSpeaking(flags) ==
    [flags EXCEPT !.isConnected = FALSE, !.isConnecting = FALSE]

\* lines 19-23
FlagsAfterCallEnd(flags) ==
    [isConnected |-> FALSE, isConnecting |-> FALSE, isSpeaking |-> FALSE]

OnCallEnd ==
    /\ HandlersLive
    /\ isConnected' = FlagsAfterCallEnd(Flags).isConnected
    /\ isConnecting' = FlagsAfterCallEnd(Flags).isConnecting
    /\ isSpeaking' = FlagsAfterCallEnd(Flags).isSpeaking
    /\ call' = "idle"
    /\ lastEvent' = Event("call-end", NoMessage)
    /\ UNCHANGED <<vapi, transcript, lifecycle>>
    /\ UNCHANGED filesVars

\* lines 25-27
OnSpeechStart ==
    /\ HandlersLive
    /\ isSpeaking' = TRUE
    /\ lastEvent' = Event("speech-start", NoMessage)
    /\ UNCHANGED <<vapi, isConnected, isConnecting, transcript, lifecycle,
                   call>>
    /\ UNCHANGED filesVars

\* lines 29-31
OnSpeechEnd ==
    /\ HandlersLive
    /\ isSpeaking' = FALSE
    /\ lastEvent' = Event("speech-end", NoMessage)
    /\ UNCHANGED <<vapi, isConnected, isConnecting, transcript, lifecycle,
                   call>>
    /\ UNCHANGED filesVars

\* lines 33-36
OnError ==
    /\ HandlersLive
    /\ isConnecting' = FALSE
    /\ lastEvent' = Event("error", NoMessage)
    /\ UNCHANGED <<vapi, isConnected, isSpeaking, transcript, lifecycle,
                   call>>
    /\ UNCHANGED filesVars

\* line 39
IsFinalTranscript(message) ==
    message.type = "transcript" /\ message.transcriptType = "final"

\* an item that takes the role of the message as it comes
TranscriptItemRawRole(message) ==
    [role |-> message.role, text |-> message.transcript]

\* lines 42-45
TranscriptItem(message) ==
    [role |-> IF message.role = "user" THEN "user" ELSE "assistant",
     text |-> message.transcript]

\* lines 38-48
TranscriptAfterMessage(prev, message) ==
    IF IsFinalTranscript(message)
    THEN Append(prev, TranscriptItem(message))
    ELSE prev

OnMessage(message) ==
    /\ HandlersLive
    /\ IsFinalTranscript(message) => Len(transcript) < MaxTranscript
    /\ transcript' = TranscriptAfterMessage(transcript, message)
    /\ lastEvent' = Event("message", message)
    /\ UNCHANGED <<vapi, isConnected, isConnecting, isSpeaking, lifecycle,
                   call>>
    /\ UNCHANGED filesVars

\* lines 50-52, the cleanup of the effect: the component is gone, and React
\* drops the state updates of a component that is gone
Cleanup ==
    /\ lifecycle = "mounted"
    /\ lifecycle' = "unmounted"
    /\ call' = IF call = "started" THEN "stopping" ELSE call
    /\ lastEvent' = Event("cleanup", NoMessage)
    /\ UNCHANGED <<vapi, isConnected, isConnecting, isSpeaking, transcript>>
    /\ UNCHANGED filesVars

----------------------------------------------------------------------------
(* Specification                                                           *)

Next ==
    \/ \E p \in Procs : AddFileUnauthorized(p)
    \/ \E p \in Procs : AddFileStore(p)
    \/ \E p \in Procs : AddFileStoreFail(p)
    \/ \E p \in Procs : AddFileExtract(p)
    \/ \E p \in Procs : AddFileExtractFail(p)
    \/ \E p \in Procs : AddFileRagAdd(p)
    \/ \E p \in Procs : AddFileRagAddFail(p)
    \/ \E p \in Procs : AddFileReturn(p)
    \/ \E p \in Procs : AddFileCrash(p)
    \/ DeleteFileRejected
    \/ DeleteFileOk
    \/ DeleteFileBlobGone
    \/ DeleteAsyncContinue

Spec == Init /\ [][Next]_vars

\* the workpool runs every queued continuation
FairSpec == Spec /\ WF_vars(DeleteAsyncContinue)

VapiNext ==
    \/ UseEffect
    \/ Render
    \/ StartCall
    \/ EndCall
    \/ OnCallEnd
    \/ OnSpeechStart
    \/ OnSpeechEnd
    \/ OnError
    \/ \E message \in Messages : OnMessage(message)
    \/ Cleanup

VapiSpec == Init /\ [][VapiNext]_vars

----------------------------------------------------------------------------
(* Properties                                                              *)

\* request p runs rag.add to its end in this step
CommitStep(p) == procs[p].pc = "extracted" /\ procs'[p].pc = "added"
\* no other addFile request is between its store and its return
Alone(p) ==
    \A q \in Procs \ {p} : procs[q].pc \notin {"stored", "extracted", "added"}
ReadyEntry(e) == e \in entries /\ e.status = "ready"

C2_NamespaceIsolation ==
    /\ \A n \in Orgs : \A c \in SearchHits(n) : \A e \in entries :
          e.entryId = c.entryId
              => e.namespace = n /\ e.metadata.uploadedBy = n
    /\ \A c \in chunks :
          /\ \E e \in entries : e.entryId = c.entryId
          /\ \A e \in entries : e.entryId = c.entryId => c.namespace = e.namespace

\* both tenants have searchable content, one of them while the other uploads
C2_Witness ==
    /\ \A n \in Orgs : SearchHits(n) # {}
    /\ \E p \in Procs : procs[p].pc = "added"

\* C3: an upload of content that another tenant's namespace holds under the
\* same filename, and that its own namespace does not hold, creates a new Entry
\* in its own namespace (created = true, a fresh id) and leaves the other
\* tenants' Entries as they are.
C3_DedupPerNamespace ==
    [][\A p \in Procs :
        (/\ CommitStep(p)
         /\ \E e \in entries :
              /\ ReadyEntry(e)
              /\ e.namespace # procs[p].orgId
              /\ e.key = procs[p].filename
              /\ e.contentHash = ContentHash(procs[p].bytes)
         /\ \A e \in entries :
              e.namespace = procs[p].orgId
                  => e.contentHash # ContentHash(procs[p].bytes))
        => /\ procs'[p].created
           /\ procs'[p].entryId \notin EntryIdsOf(entries)
           /\ \E e \in entries' :
                /\ e.entryId = procs'[p].entryId
                /\ e.namespace = procs[p].orgId
                /\ e.contentHash = ContentHash(procs[p].bytes)
           /\ \A e \in entries : e.namespace # procs[p].orgId => e \in entries']_vars

\* two tenants hold the same content under the same filename, each in an Entry
\* of its own, the second one just created
C3_Witness ==
    \E p \in Procs : \E e1, e2 \in entries :
        /\ procs[p].pc = "added"
        /\ procs[p].created
        /\ e2.entryId = procs[p].entryId
        /\ e1.namespace # e2.namespace
        /\ e1.key = e2.key
        /\ e1.contentHash = e2.contentHash
        /\ e1.status = "ready" /\ e2.status = "ready"

\* a deleteFile call has just answered
DeleteStep == lastDelete' # NoDelete

\* C4: deleteFile by a tenant on an Entry another tenant uploaded answers
\* UNAUTHORIZED and leaves the Entries, the chunks, the blobs and the deletion
\* queue as they were.
C4_ForeignDeleteRejected ==
    [][\A e \in entries :
        (/\ DeleteStep
         /\ lastDelete'.entryId = e.entryId
         /\ lastDelete'.orgId \in Orgs
         /\ e.metadata.uploadedBy # lastDelete'.orgId)
        => /\ lastDelete'.code = "UNAUTHORIZED"
           /\ UNCHANGED <<entries, chunks, blobs, deleting>>]_vars

\* a tenant with a namespace of its own was refused another tenant's Entry
C4_Witness ==
    /\ lastDelete.code = "UNAUTHORIZED"
    /\ lastDelete.orgId \in namespaces
    /\ \E e \in entries :
          /\ e.entryId = lastDelete.entryId
          /\ e.metadata.uploadedBy # lastDelete.orgId
          /\ e.metadata.storageId \in blobs
          /\ ChunksOf(e.entryId) # {}

\* the Entry is gone: no record, no chunk, nothing a query can return
EntryGone(entryId) ==
    /\ ~EntryExists(entryId)
    /\ ChunksOf(entryId) = {}
    /\ \A n \in Orgs : \A c \in SearchHits(n) : c.entryId # entryId

\* C5, as claimed: in the state right after a successful deleteFile the blob
\* is out of the store, no chunk references the Entry, the Entry record is gone
\* and no query returns it.
C5_GoneAtReturn ==
    lastDelete.code = "OK"
        => /\ lastDelete.storageId \notin blobs
           /\ EntryGone(lastDelete.entryId)

\* C5, amended: right after a successful deleteFile the blob is out of the
\* store and the Entry is either gone (record, chunks, query hits) or queued
\* for the asynchronous deletion, during which it can still be returned by a
\* query; every queued Entry is gone once the queued deletion has run.
C5_GoneWhenDeletionRan ==
    /\ [](lastDelete.code = "OK"
            => /\ lastDelete.storageId \notin blobs
               /\ \/ EntryGone(lastDelete.entryId)
                  \/ lastDelete.entryId \in deleting)
    /\ \A entryId \in EntryIds :
          (entryId \in deleting) ~> EntryGone(entryId)

\* deleteFile has returned and the Entry is still there, searchable
C5_Witness ==
    /\ lastDelete.code = "OK"
    /\ lastDelete.entryId \in deleting
    /\ \E n \in Orgs : \E c \in SearchHits(n) : c.entryId = lastDelete.entryId

C7_NoBlobOnDedupHit ==
    \A p \in Procs :
        (procs[p].pc = "done" /\ ~procs[p].created)
            => \/ procs[p].storageId \notin blobs
               \/ \E e \in entries :
                    e.metadata.storageId = procs[p].storageId

\* C8: when addFile fails after it stored its blob, the blob is deleted before
\* the failure is reported.
C8_NoBlobAfterFailure ==
    \A p \in Procs :
        (procs[p].pc = "failed" /\ procs[p].storageId # NoStorage)
            => procs[p].storageId \notin blobs

\* C9: an upload whose extracted text is empty or blank does not get through
\* rag.add, and no Entry is left with zero chunks.
C9_NoEmptyEntry ==
    /\ \A p \in Procs :
          procs[p].pc \in {"added", "done"}
              => DecodedText(procs[p].bytes) # << >>
    /\ \A e \in entries : ChunksOf(e.entryId) # {}

\* the text an Entry was made from
TextOfHash(contentHash) ==
    DecodedText(CHOOSE b \in Bytes : ContentHash(b) = contentHash)

StartStep(p) == CanStart(p) /\ procs'[p].pc \in {"stored", "failed"}

\* C11: an addFile or a deleteFile whose caller has no identity, or an
\* identity without organization id, ends with UNAUTHORIZED, and its step
\* writes no blob, no Entry, no chunk and no namespace and deletes nothing.
C11_NoOrgNoWrite ==
    [][/\ \A p \in Procs :
            (StartStep(p) /\ procs'[p].orgId = "")
                => /\ procs'[p].pc = "failed"
                   /\ procs'[p].error = "UNAUTHORIZED"
                   /\ UNCHANGED <<blobs, namespaces, entries, chunks,
                                  deleting, nextStorageId, nextEntryId>>
       /\ (DeleteStep /\ lastDelete'.orgId = "")
                => /\ lastDelete'.code = "UNAUTHORIZED"
                   /\ UNCHANGED <<blobs, namespaces, entries, chunks,
                                  deleting, nextStorageId, nextEntryId>>]_vars

\* an upload without organization was refused while another tenant's upload
\* is under way and an Entry with its blob is in place
C11_Witness ==
    \E p, q \in Procs :
        /\ procs[p].pc = "failed"
        /\ procs[p].error = "UNAUTHORIZED"
        /\ procs[p].orgId = ""
        /\ procs[p].storageId = NoStorage
        /\ procs[q].pc \in {"stored", "extracted"}
        /\ \E e \in entries : e.metadata.storageId \in blobs

\* C12: deleteFile answers a tenant that asks for another tenant's Entry with
\* the error it answers the same tenant, in the same state, for an entryId
\* that does not exist.
C12_SameErrorForeignOrMissing ==
    \A e \in entries :
        (/\ lastDelete.code # ""
         /\ lastDelete.orgId \in Orgs
         /\ lastDelete.entryId = e.entryId
         /\ e.metadata.uploadedBy # lastDelete.orgId)
        => \A entryId \in EntryIds :
              ~EntryExists(entryId)
                  => DeleteCheck([present |-> TRUE,
                                  orgId |-> lastDelete.orgId], entryId)
                        = lastDelete.code

\* C13: deleteFile by a caller whose organization has a namespace, on an
\* entryId that no Entry has, answers NOT_FOUND and leaves the blobs, the
\* Entries, the chunks and the deletion queue as they were.
C13_MissingEntryNotFound ==
    [][(/\ DeleteStep
        /\ lastDelete'.orgId \in namespaces
        /\ \A e \in entries : e.entryId # lastDelete'.entryId)
       => /\ lastDelete'.code = "NOT_FOUND"
          /\ UNCHANGED <<blobs, namespaces, entries, chunks, deleting>>]_vars

\* a tenant that holds an Entry, with its blob and chunks, asked for an
\* entryId that does not exist
C13_Witness ==
    /\ lastDelete.code = "NOT_FOUND"
    /\ lastDelete.orgId \in namespaces
    /\ ~EntryExists(lastDelete.entryId)
    /\ \E e \in entries :
          /\ e.metadata.uploadedBy = lastDelete.orgId
          /\ e.metadata.storageId \in blobs
          /\ ChunksOf(e.entryId) # {}

\* C14: every Entry, in every state, has the organization id of a tenant as
\* its namespace and the same id as metadata.uploadedBy, and the Entry an
\* addFile creates carries the organization id of that call's identity in
\* both.
C14_EntryOwnedByCaller ==
    /\ [](\A e \in entries :
            e.namespace \in Orgs /\ e.metadata.uploadedBy = e.namespace)
    /\ [][\A p \in Procs :
            (CommitStep(p) /\ procs'[p].created)
                => \E e \in entries' \ entries :
                      /\ e.entryId = procs'[p].entryId
                      /\ e.namespace = procs[p].orgId
                      /\ e.metadata.uploadedBy = procs[p].orgId]_vars

\* a tenant's upload has just created its Entry next to an Entry of the other
\* tenant
C14_Witness ==
    \E p \in Procs : \E e1, e2 \in entries :
        /\ procs[p].pc = "added"
        /\ procs[p].created
        /\ e1.entryId = procs[p].entryId
        /\ e1.metadata.uploadedBy = procs[p].orgId
        /\ e2.metadata.uploadedBy # procs[p].orgId

\* C15: whatever filename, mimeType, bytes and category an addFile is called
\* with, the Entries and chunks its rag.add writes or changes, and the
\* namespace it creates, are those of the organization of the call's
\* identity; whatever entryId a deleteFile is called with, the Entries, chunks
\* and blobs it removes are those uploaded by the organization of the call's
\* identity, and a refused call removes nothing.
C15_NamespaceFromIdentityOnly ==
    [][/\ \A p \in Procs :
            CommitStep(p)
                => /\ \A e \in (entries' \ entries) \cup (entries \ entries') :
                        /\ e.namespace = procs[p].orgId
                        /\ e.metadata.uploadedBy = procs[p].orgId
                   /\ \A c \in chunks' \ chunks : c.namespace = procs[p].orgId
                   /\ chunks \subseteq chunks'
                   /\ namespaces' \ namespaces \subseteq {procs[p].orgId}
       /\ (DeleteStep /\ lastDelete'.code = "OK")
                => /\ \A e \in entries \ entries' :
                        e.metadata.uploadedBy = lastDelete'.orgId
                   /\ \A c \in chunks \ chunks' :
                        c.namespace = lastDelete'.orgId
                   /\ \A b \in blobs \ blobs' :
                        \E e \in entries :
                            /\ e.metadata.storageId = b
                            /\ e.metadata.uploadedBy = lastDelete'.orgId
                   /\ entries' \subseteq entries
       /\ (DeleteStep /\ lastDelete'.code # "OK")
                => UNCHANGED <<blobs, namespaces, entries, chunks,
                               deleting>>]_vars

\* an upload that names a category, under a filename another tenant's ready
\* Entry uses, has created its Entry in its own namespace
C15_Witness ==
    \E p \in Procs : \E e1, e2 \in entries :
        /\ procs[p].pc = "added"
        /\ procs[p].created
        /\ e1.entryId = procs[p].entryId
        /\ e1.namespace = procs[p].orgId
        /\ e1.metadata.category # NoCategory
        /\ e2.namespace # e1.namespace
        /\ e2.key = e1.key
        /\ e2.status = "ready"

\* C16: an addFile called without a MIME type stores its blob under the type
\* the extension of the filename gives when it gives one, else under the type
\* sniffed from the contents when sniffing gives one, else under
\* application/octet-stream; the type is never empty.
C16_MimeFallbackChain ==
    \A p \in Procs :
        (procs[p].pc = "stored" /\ procs[p].argsMimeType = "")
            => LET ext == GuessMimeTypeFromExtension(procs[p].filename)
                   sniffed == GuessMimeTypeFromContents(procs[p].bytes)
                   mimeType == procs[p].mimeType
               IN  /\ mimeType # ""
                   /\ ext # "" => mimeType = ext
                   /\ (ext = "" /\ sniffed # "") => mimeType = sniffed
                   /\ (ext = "" /\ sniffed = "")
                          => mimeType = "application/octet-stream"

\* two uploads without a MIME type: one whose extension and contents point to
\* different types, one with neither an extension nor a known signature
C16_Witness ==
    \E p, q \in Procs :
        /\ procs[p].pc = "stored" /\ procs[p].argsMimeType = ""
        /\ procs[p].filename = "faq.txt" /\ procs[p].bytes = "Bpdf"
        /\ procs[p].mimeType = "text/plain"
        /\ procs[q].pc = "stored" /\ procs[q].argsMimeType = ""
        /\ procs[q].filename = "notes" /\ procs[q].bytes = "B1"
        /\ procs[q].mimeType = "application/octet-stream"

\* request p reaches rag.add with content that differs from that of e, the
\* ready Entry of p's filename in p's namespace
ChangedFile(p, e) ==
    /\ CommitStep(p)
    /\ ReadyEntry(e)
    /\ e.namespace = procs[p].orgId
    /\ e.key = procs[p].filename
    /\ e.contentHash # ContentHash(procs[p].bytes)

\* C17, as claimed: an addFile of different content under a filename that a
\* ready Entry of the namespace uses creates a new Entry and leaves that
\* Entry and its chunks as they were.
C17_ChangedFileKeepsEntry ==
    [][\A p \in Procs : \A e \in entries :
        ChangedFile(p, e)
            => /\ procs'[p].created
               /\ procs'[p].entryId \notin EntryIdsOf(entries)
               /\ e \in entries'
               /\ {c \in chunks' : c.entryId = e.entryId}
                      = ChunksOf(e.entryId)]_vars

\* C17, amended: an addFile of different content under a filename that a
\* ready Entry of the namespace uses creates a new Entry; the Entry that held
\* the filename stays in the table with its id, marked "replaced", and no
\* query returns it any more; every other Entry and its chunks are as they
\* were.
C17_ChangedFileReplacesEntry ==
    [][\A p \in Procs : \A e \in entries :
        ChangedFile(p, e)
            => /\ procs'[p].created
               /\ procs'[p].entryId \notin EntryIdsOf(entries)
               /\ \E n \in entries' :
                     /\ n.entryId = procs'[p].entryId
                     /\ n.status = "ready"
                     /\ n.key = e.key
               /\ [e EXCEPT !.status = "replaced"] \in entries'
               /\ e \notin entries'
               /\ \A n \in Orgs : \A c \in SearchHits(n)' :
                     c.entryId # e.entryId
               /\ \A o \in entries \ {e} :
                     /\ o \in entries'
                     /\ {c \in chunks' : c.entryId = o.entryId}
                            = ChunksOf(o.entryId)]_vars

\* a changed file was uploaded under its old filename: the new Entry is the
\* ready one, the old one is still in the table, replaced, with its chunks
C17_Witness ==
    \E p \in Procs : \E e1, e2 \in entries :
        /\ procs[p].pc = "added"
        /\ procs[p].created
        /\ e2.entryId = procs[p].entryId
        /\ e2.status = "ready"
        /\ e1.status = "replaced"
        /\ e1.namespace = e2.namespace
        /\ e1.key = e2.key
        /\ e1.contentHash # e2.contentHash
        /\ ChunksOf(e1.entryId) # {}

C19_RetriedDeleteSucceeds ==
    [][\A e \in entries :
        (/\ DeleteStep
         /\ lastDelete'.entryId = e.entryId
         /\ lastDelete'.orgId = e.metadata.uploadedBy
         /\ e.metadata.storageId \notin blobs)
        => /\ lastDelete'.code = "OK"
           /\ \/ e.entryId \in deleting'
              \/ \A o \in entries' : o.entryId # e.entryId]_vars

\* C20: an addFile reports a transient I/O failure of the blob store, of the
\* extraction or of rag.add only after it has made the failing call more than
\* once.
C20_TransientFailureRetried ==
    \A p \in Procs :
        (procs[p].pc = "failed" /\ procs[p].error = "TRANSIENT_IO")
            => procs[p].attempts > 1

\* the blob and all the chunks of Entry e are in place
Intact(e) ==
    /\ e.metadata.storageId \in blobs
    /\ {c.order : c \in ChunksOf(e.entryId)}
          = 1 .. Len(TextOfHash(e.contentHash))

\* C21, as claimed: in no state does an Entry record exist whose blob or
\* chunks have already been deleted.
C21_NoEntryWithDeletedDependents ==
    \A e \in entries : Intact(e)

\* C21, amended: deleteFile removes the blob and the chunks before the Entry
\* record: the step that removes an Entry record leaves no chunk of that Entry
\* and not its blob, no chunk is ever without its Entry record, and an Entry
\* record whose blob or chunks are already deleted is one whose deletion is
\* still queued.
C21_DependentsBeforeEntry ==
    /\ [][\A e \in entries :
            (\A o \in entries' : o.entryId # e.entryId)
                => /\ \A c \in chunks' : c.entryId # e.entryId
                   /\ e.metadata.storageId \notin blobs']_vars
    /\ [](\A c \in chunks : EntryExists(c.entryId))
    /\ [](\A e \in entries : Intact(e) \/ e.entryId \in deleting)

\* while an upload is under way, an Entry record stands with its blob and its
\* first chunk deleted and its second chunk still there, queued for deletion
C21_Witness ==
    \E e \in entries :
        /\ e.entryId \in deleting
        /\ e.metadata.storageId \notin blobs
        /\ {c.order : c \in ChunksOf(e.entryId)} = {2}
        /\ lastDelete = NoDelete
        /\ \E p \in Procs : InFlight(p)

\* C22: the entryId rag.add hands to an addFile is never that of an Entry
\* whose asynchronous deletion is pending, which would disappear without any
\* deleteFile invoked after the return.
C22_ReturnedEntryStays ==
    [][\A p \in Procs :
        CommitStep(p) => procs'[p].entryId \notin deleting']_vars

\* C23: the url an addFile returns serves the blob that the metadata of the
\* Entry it returns records (an Entry that is not being deleted).
C23_UrlOfReturnedEntry ==
    \A p \in Procs :
        procs[p].pc = "done"
            => \A e \in entries :
                  (e.entryId = procs[p].entryId /\ e.entryId \notin deleting)
                      => procs[p].url = e.metadata.storageId

\* C24: the answer of deleteFile is that of the first failing check in the
\* order identity and orgId, namespace of the caller, existence of the Entry,
\* ownership; a caller whose organization has no namespace gets UNAUTHORIZED
\* for every entryId.
C24_ChecksInOrder ==
    [][DeleteStep =>
        IF lastDelete'.orgId = ""
        THEN lastDelete'.code = "UNAUTHORIZED"
        ELSE IF lastDelete'.orgId \notin namespaces
        THEN lastDelete'.code = "UNAUTHORIZED"
        ELSE IF \A e \in entries : e.entryId # lastDelete'.entryId
        THEN lastDelete'.code = "NOT_FOUND"
        ELSE IF \E e \in entries :
                    /\ e.entryId = lastDelete'.entryId
                    /\ e.metadata.uploadedBy # lastDelete'.orgId
        THEN lastDelete'.code = "UNAUTHORIZED"
        ELSE lastDelete'.code \in {"OK", "STORAGE_ERROR"}]_vars

\* a tenant without a namespace asked for an entryId that no Entry has, while
\* another tenant holds an Entry, and was answered UNAUTHORIZED
C24_Witness ==
    /\ lastDelete.code = "UNAUTHORIZED"
    /\ lastDelete.orgId \in Orgs \ namespaces
    /\ ~EntryExists(lastDelete.entryId)
    /\ entries # {}

\* C25: the type an addFile stores its blob under, and hands to the
\* extraction, is the supplied one when one is supplied and the result of the
\* fallback chain when none is; it is never empty.
C25_SuppliedMimeTypeKept ==
    \A p \in Procs :
        procs[p].pc = "stored"
            => /\ procs[p].mimeType # ""
               /\ procs[p].argsMimeType # ""
                      => procs[p].mimeType = procs[p].argsMimeType
               /\ procs[p].argsMimeType = ""
                      => procs[p].mimeType
                            = GuessMimeType(procs[p].filename, procs[p].bytes)

\* an upload whose supplied type differs from what the chain would guess,
\* next to one that supplies none
C25_Witness ==
    \E p, q \in Procs :
        /\ procs[p].pc = "stored"
        /\ procs[p].argsMimeType = "text/plain"
        /\ procs[p].mimeType = "text/plain"
        /\ GuessMimeType(procs[p].filename, procs[p].bytes) = "application/pdf"
        /\ procs[q].pc = "stored"
        /\ procs[q].argsMimeType = ""
        /\ procs[q].mimeType = "application/pdf"

\* an Entry whose metadata has no storageId
EntryWithoutBlob ==
    [entryId |-> NoEntry, metadata |-> [storageId |-> NoStorage]]

C27_ConnectingMeansStarted ==
    /\ [](isConnecting => call # "idle")
    /\ [][lastEvent'.name \in {"call-end", "error"} => ~isConnecting']_vars

\* C28: the step of a call-end event leaves isConnected, isConnecting and
\* isSpeaking all false, and in no state are isConnected and isConnecting
\* both true.
C28_CallEndClearsFlags ==
    /\ [][lastEvent'.name = "call-end"
            => ~isConnected' /\ ~isConnecting' /\ ~isSpeaking']_vars
    /\ [](~(isConnected /\ isConnecting))

\* a call that was started and produced a transcript has ended, and a later
\* speech-start event set isSpeaking again
C28_Witness ==
    /\ lastEvent.name = "speech-start"
    /\ vapi = VapiInstance
    /\ call = "idle"
    /\ transcript # << >>
    /\ ~isConnecting
    /\ isSpeaking

\* C29: a step changes the transcript only if it is a message event with
\* type "transcript" and transcriptType "final", and that step appends one
\* item at the end: role "user" iff message.role is "user", otherwise
\* "assistant", and the message's text; every other event, startCall and
\* endCall leave the transcript as it was.
C29_TranscriptAppendOnly ==
    [][IF /\ lastEvent'.name = "message"
          /\ lastEvent'.message.type = "transcript"
          /\ lastEvent'.message.transcriptType = "final"
       THEN transcript' =
                transcript \o
                    << [role |-> IF lastEvent'.message.role = "user"
                                 THEN "user" ELSE "assistant",
                        text |-> lastEvent'.message.transcript] >>
       ELSE transcript' = transcript]_vars

\* a user item, then an assistant item, then the final transcript of a
\* message whose role is neither; partial transcripts arrived in between
C29_Witness ==
    /\ Len(transcript) = 3
    /\ transcript[1] = [role |-> "user", text |-> "hello"]
    /\ transcript[2] = [role |-> "assistant", text |-> "bye"]
    /\ transcript[3] = [role |-> "assistant", text |-> "hello"]
    /\ lastEvent.name = "message"
    /\ lastEvent.message.role = "system"
    /\ lastEvent.message.transcriptType = "final"
    /\ call = "started"

====
